---- MODULE Spec2Model ----
(***************************************************************************)
(* Battle Arena API (src/main.py, src/schemas.py): the match documents,    *)
(* the card collection and the request handlers seed_cards, start_match,   *)
(* deploy_unit and tick.                                                   *)
(*                                                                         *)
(* Numbers.  The handlers compute elixir and unit positions in floating    *)
(* point; the model keeps them as exact rationals with fixed denominators: *)
(*   elixir is held as  elixir * 2800  (one unit = the elixir regenerated  *)
(*          in one millisecond, since regen = dt / 2800.0),                *)
(*   x      is held as  x * 10000      (speed is held in tenths, dt in     *)
(*          milliseconds, and x += speed * (dt / 1000.0)).                 *)
(* time, hp, dmg, cost and last_tick_ms are integers in the code too.      *)
(*                                                                         *)
(* The model follows one match document.  Every handler addresses a match  *)
(* by its _id and touches no other document, so the other documents of     *)
(* the collection are left out; requests may still name an id that no      *)
(* document has.                                                           *)
(***************************************************************************)
EXTENDS Integers, Sequences, FiniteSets, TLC

VARIABLES
    db,          \* TRUE when database.db is a handle, FALSE when it is None
    cardColl,    \* db["card"]: the card_ids of the stored card documents
    matchColl,   \* db["match"]: <<>> or <<the match document followed>>
    result,      \* the response of the last request: [op, code]
    elapsed,     \* history: sum of the dt of the ticks applied to the match
    nticks,      \* history: number of ticks applied to the match
    deployLog,   \* history: the requests of the deploys answered ok, in order
    inflight     \* requests between their read of the match and their write

vars == <<db, cardColl, matchColl, result, elapsed, nticks, deployLog, inflight>>

----------------------------------------------------------------------------
(* Bounds of the model *)

MaxTicks == 3        \* ticks applied to the match in one behaviour
MaxUnits == 2        \* units deployed in one behaviour
StartMs == 1000      \* wall-clock time (ms) of start_match

\* now_ms - last_tick_ms of a tick request.  time.time() is the wall clock:
\* it can repeat a value or step back, so 0 and a negative step are inputs.
Deltas == {-1000, 0, 500, 2800, 177500, 180000}

\* ids a request can carry: "m1" is the id create_document gives the match
\* followed, "m2" is an id of no document.
MatchIds == {"m1", "m2"}

\* card ids a deploy request can carry: a seeded one and an unknown one.
RequestCards == {"assassin", "dragon"}

\* DeployRequest.lane
Lanes == {0, 1, 2}

----------------------------------------------------------------------------
(* Program constants *)

START_TIME == 180          \* start_match: time=180
START_ELIXIR == 5          \* start_match: elixir=5
SIDE_TOWER_HP == 1000      \* start_match: Tower(..., hp=1000)
KING_TOWER_HP == 1800      \* start_match: Tower(..., hp=1800)
RECHARGE_MS == 2800        \* tick: regen = dt / 2800.0
MAX_ELIXIR == 10           \* tick: min(10, ...)
LANE_END == 10             \* tick: if u["x"] >= 10
DEFAULT_SPEED == 10        \* tick: fallback {"speed": 1.0}, in tenths
DEFAULT_DMG == 50          \* tick: fallback {"dmg": 50}

ElixirScale == RECHARGE_MS         \* stored elixir = elixir * ElixirScale
PosScale == 10 * 1000              \* stored x = x * PosScale

Max(a, b) == IF a >= b THEN a ELSE b
Min(a, b) == IF a <= b THEN a ELSE b

----------------------------------------------------------------------------
(* seed_cards: the four base cards; speed in tenths *)

BaseCards ==
    [ knight   |-> [cost |-> 3, hp |-> 600,  dmg |-> 75,  speed |-> 10],
      archer   |-> [cost |-> 3, hp |-> 220,  dmg |-> 100, speed |-> 10],
      giant    |-> [cost |-> 5, hp |-> 2000, dmg |-> 100, speed |-> 6],
      assassin |-> [cost |-> 4, hp |-> 400,  dmg |-> 200, speed |-> 15] ]

\* db["card"].find_one({"card_id": id}) is not None
HasCard(coll, id) == id \in coll

\* tick: card = cards_map.get(u["card_id"]) or {"speed": 1.0, "dmg": 50}
CardOrDefaultHarmless(coll, id) ==
    IF HasCard(coll, id) THEN BaseCards[id]
    ELSE [speed |-> DEFAULT_SPEED, dmg |-> 0]
CardOrDefault(coll, id) ==
    IF HasCard(coll, id) THEN BaseCards[id]
    ELSE [speed |-> DEFAULT_SPEED, dmg |-> DEFAULT_DMG]

----------------------------------------------------------------------------
(* start_match *)

Tower(side, lane, hp) == [side |-> side, lane |-> lane, hp |-> hp]

NewMatch(id, now) ==
    [ id           |-> id,
      status       |-> "active",
      time         |-> START_TIME,
      elixir       |-> START_ELIXIR * ElixirScale,
      units        |-> <<>>,
      towers       |-> << Tower("player", "left",  SIDE_TOWER_HP),
                          Tower("player", "right", SIDE_TOWER_HP),
                          Tower("player", "king",  KING_TOWER_HP),
                          Tower("ai",     "left",  SIDE_TOWER_HP),
                          Tower("ai",     "right", SIDE_TOWER_HP),
                          Tower("ai",     "king",  KING_TOWER_HP) >>,
      last_tick_ms |-> now ]

\* db["match"].find_one({"_id": ObjectId(id)}): <<>> or <<document>>
FindMatch(coll, id) == SelectSeq(coll, LAMBDA m : m.id = id)

----------------------------------------------------------------------------
(* tick: the state advance *)

\* dt = max(0, now_ms - last)
DtSigned(m, now) == now - m.last_tick_ms
Dt(m, now) == Max(0, now - m.last_tick_ms)

\* new_elixir = min(10, match.get("elixir", 0) + dt / 2800.0)
NewElixirUncapped(e, dt) == e + dt
NewElixirWhole(e, dt) ==
    Min(MAX_ELIXIR * ElixirScale, e + (dt \div RECHARGE_MS) * ElixirScale)
NewElixir(e, dt) == Min(MAX_ELIXIR * ElixirScale, e + dt)

\* new_time = max(0, match.get("time", 0) - int(dt/1000))
NewTimeRoundUp(t, dt) == Max(0, t - ((dt + 999) \div 1000))
NewTimeUnfloored(t, dt) == t - (dt \div 1000)
NewTime(t, dt) == Max(0, t - (dt \div 1000))

\* status = "finished" if new_time == 0 else "active"
StatusOf(t) == IF t = 0 THEN "finished" ELSE "active"

\* u["x"] = u.get("x", 0.0) + card.get("speed", 1.0) * (dt / 1000.0)
MoveLaneReset(coll, u, dt) ==
    [u EXCEPT !.x = u.x + CardOrDefault(coll, u.card_id).speed * dt, !.lane = 1]
Move(coll, u, dt) == [u EXCEPT !.x = u.x + CardOrDefault(coll, u.card_id).speed * dt]

\* t["side"] == "ai" and (t["lane"] == "right" if u.get("lane",1)==2
\*                        else t["lane"] == "left")
IsTargetCentreRight(u, t) ==
    /\ t.side = "ai"
    /\ IF u.lane = 0 THEN t.lane = "left" ELSE t.lane = "right"
IsTarget(u, t) ==
    /\ t.side = "ai"
    /\ IF u.lane = 2 THEN t.lane = "right" ELSE t.lane = "left"

\* the inner loop over the towers for one unit that stands at x >= 10
HitNoFloor(coll, u, towers) ==
    [ i \in 1..Len(towers) |->
        IF IsTarget(u, towers[i])
        THEN [towers[i] EXCEPT
                !.hp = towers[i].hp - CardOrDefault(coll, u.card_id).dmg]
        ELSE towers[i] ]
Hit(coll, u, towers) ==
    [ i \in 1..Len(towers) |->
        IF IsTarget(u, towers[i])
        THEN [towers[i] EXCEPT
                !.hp = Max(0, towers[i].hp - CardOrDefault(coll, u.card_id).dmg)]
        ELSE towers[i] ]

\* the loop over the units, in list order, from unit i on
RECURSIVE HitAll(_, _, _, _)
HitAll(coll, units, towers, i) ==
    IF i > Len(units) THEN towers
    ELSE HitAll(coll, units,
                IF units[i].x >= LANE_END * PosScale
                THEN Hit(coll, units[i], towers) ELSE towers,
                i + 1)

\* the document tick stores for match m at wall-clock time now
Advance(coll, m, now) ==
    LET dt == Dt(m, now)
        moved == [i \in 1..Len(m.units) |-> Move(coll, m.units[i], dt)]
        new_time == NewTime(m.time, dt)
    IN  [ m EXCEPT !.units = moved,
                   !.towers = HitAll(coll, moved, m.towers, 1),
                   !.elixir = NewElixir(m.elixir, dt),
                   !.time = new_time,
                   !.status = StatusOf(new_time),
                   !.last_tick_ms = now ]

----------------------------------------------------------------------------
(* deploy_unit *)

\* the response of deploy_unit, decided in the order of its early returns
DeployCode(dbok, cards, found, card_id) ==
    IF ~dbok THEN "db_unavailable"
    ELSE IF found = <<>> THEN "match_not_found"
    ELSE IF ~HasCard(cards, card_id) THEN "card_not_found"
    ELSE IF found[1].elixir < BaseCards[card_id].cost * ElixirScale
         THEN "not_enough_elixir"
    ELSE "ok"

\* Unit(owner="player", card_id=..., x=0.0, lane=req.lane, hp=unit_card["hp"])
NewUnit(card_id, lane) ==
    [owner |-> "player", card_id |-> card_id, x |-> 0, lane |-> lane,
     hp |-> BaseCards[card_id].hp]

\* update_one: {"$push": {"units": unit}, "$inc": {"elixir": -cost}}
DeployedNoDebit(m, card_id, lane) ==
    [ m EXCEPT !.units = Append(m.units, NewUnit(card_id, lane)) ]
Deployed(m, card_id, lane) ==
    [ m EXCEPT !.units = Append(m.units, NewUnit(card_id, lane)),
               !.elixir = m.elixir - BaseCards[card_id].cost * ElixirScale ]

\* the match collection after deploy_unit answered with code
DeployStoreEarly(coll, code, card_id, lane) ==
    IF code \in {"ok", "not_enough_elixir"}
    THEN <<Deployed(coll[1], card_id, lane)>> ELSE coll
DeployStore(coll, code, card_id, lane) ==
    IF code = "ok" THEN <<Deployed(coll[1], card_id, lane)>> ELSE coll

----------------------------------------------------------------------------
(* The handlers as actions *)

Response(op, code) == [op |-> op, code |-> code]

Init ==
    /\ db \in BOOLEAN
    /\ cardColl = {}
    /\ matchColl = <<>>
    /\ result = Response("none", "none")
    /\ elapsed = 0
    /\ nticks = 0
    /\ deployLog = <<>>
    /\ inflight = <<>>

seed_cards ==
    /\ cardColl' = IF db /\ cardColl = {} THEN DOMAIN BaseCards ELSE cardColl
    /\ result' = Response("seed", IF ~db THEN "db_unavailable"
                                  ELSE IF cardColl # {} THEN "not_seeded"
                                  ELSE "seeded")
    /\ UNCHANGED <<db, matchColl, elapsed, nticks, deployLog, inflight>>

start_match ==
    /\ matchColl = <<>>
    /\ matchColl' = IF db THEN <<NewMatch("m1", StartMs)>> ELSE matchColl
    /\ result' = Response("start", IF db THEN "ok" ELSE "db_unavailable")
    /\ UNCHANGED <<db, cardColl, elapsed, nticks, deployLog, inflight>>

\* the entry of deployLog for a deploy request answered ok
Logged(card_id, lane) == [card_id |-> card_id, lane |-> lane]

\* deploy_unit run from its first line to its last with nothing in between
DeployRequest(id, card_id, lane) ==
    LET found == FindMatch(matchColl, id)
        code == DeployCode(db, cardColl, found, card_id)
    IN  /\ code = "ok" => Len(found[1].units) < MaxUnits
        /\ matchColl' = DeployStore(matchColl, code, card_id, lane)
        /\ result' = Response("deploy", code)
        /\ deployLog' = IF code = "ok"
                        THEN Append(deployLog, Logged(card_id, lane))
                        ELSE deployLog
        /\ UNCHANGED <<db, cardColl, elapsed, nticks, inflight>>

deploy_unit ==
    \E id \in MatchIds, card_id \in RequestCards, lane \in Lanes :
        DeployRequest(id, card_id, lane)

\* tick run from its first line to its last with nothing in between, at a
\* wall-clock time d after the stored last_tick_ms; limit bounds the ticks
TickRequest(id, d, limit) ==
    LET found == FindMatch(matchColl, id)
    IN  IF ~db \/ found = <<>>
        THEN /\ result' = Response("tick", IF ~db THEN "db_unavailable"
                                           ELSE "match_not_found")
             /\ UNCHANGED <<db, cardColl, matchColl, elapsed, nticks,
                            deployLog, inflight>>
        ELSE LET now == found[1].last_tick_ms + d
             IN  /\ now >= 0
                 /\ nticks < limit
                 /\ matchColl' = <<Advance(cardColl, found[1], now)>>
                 /\ elapsed' = elapsed + Dt(found[1], now)
                 /\ nticks' = nticks + 1
                 /\ result' = Response("tick", "ok")
                 /\ UNCHANGED <<db, cardColl, deployLog, inflight>>

tick ==
    \E id \in MatchIds, d \in Deltas : TickRequest(id, d, MaxTicks)

Next == seed_cards \/ start_match \/ deploy_unit \/ tick

Spec == Init /\ [][Next]_vars

----------------------------------------------------------------------------
(* The handlers of concurrent requests.  FastAPI runs these def handlers   *)
(* on a thread pool and nothing in them locks a match, so between a        *)
(* handler's find_one and its update_one other handlers may run.  Each     *)
(* pymongo call is one atomic step on the stored document.                 *)

MaxInFlight == 2     \* requests between their read and their write
MaxConcTicks == 2    \* ticks applied to the match in one interleaving

\* DeployRequest.lane of a deploy request in the interleaving model
ConcLanes == {0}

\* now_ms - last_tick_ms of a tick request in the interleaving model
ConcDeltas == {0, 2800}

RemoveAt(seq, i) == SubSeq(seq, 1, i - 1) \o SubSeq(seq, i + 1, Len(seq))

InFlight(op) == Len(SelectSeq(inflight, LAMBDA e : e.op = op))

\* tick, lines 170-173: $set writes the six computed fields over the document
\* stored now; they were computed from e.doc, the document read at line 140
TickStoredAtomic(cards, cur, e) == Advance(cards, cur, e.now)
TickStored(cards, cur, e) ==
    LET adv == Advance(cards, e.doc, e.now)
    IN  [ cur EXCEPT !.units = adv.units,
                     !.towers = adv.towers,
                     !.elixir = adv.elixir,
                     !.time = adv.time,
                     !.status = adv.status,
                     !.last_tick_ms = adv.last_tick_ms ]

\* deploy_unit, lines 109-120: the reads and the checks; a refusal answers
\* at once, an accepted request goes on to its update_one
deploy_load ==
    \E id \in MatchIds, card_id \in RequestCards, lane \in ConcLanes :
        LET found == FindMatch(matchColl, id)
            code == DeployCode(db, cardColl, found, card_id)
        IN  IF code = "ok"
            THEN /\ Len(inflight) < MaxInFlight
                 /\ Len(found[1].units) + InFlight("deploy") < MaxUnits
                 /\ inflight' = Append(inflight,
                        [op |-> "deploy", card_id |-> card_id, lane |-> lane])
                 /\ UNCHANGED <<db, cardColl, matchColl, result, elapsed,
                                nticks, deployLog>>
            ELSE /\ result' = Response("deploy", code)
                 /\ UNCHANGED <<db, cardColl, matchColl, elapsed, nticks,
                                deployLog, inflight>>

\* deploy_unit, lines 122-123: update_one ($push, $inc) on the document
\* stored now, then the answer
deploy_store ==
    \E i \in 1..Len(inflight) :
        /\ inflight[i].op = "deploy"
        /\ matchColl' = <<Deployed(matchColl[1], inflight[i].card_id,
                                   inflight[i].lane)>>
        /\ result' = Response("deploy", "ok")
        /\ deployLog' = Append(deployLog,
                               Logged(inflight[i].card_id, inflight[i].lane))
        /\ inflight' = RemoveAt(inflight, i)
        /\ UNCHANGED <<db, cardColl, elapsed, nticks>>

\* tick, lines 137-147: find_one and the clock
tick_load ==
    \E id \in MatchIds, d \in ConcDeltas :
        LET found == FindMatch(matchColl, id)
        IN  IF ~db \/ found = <<>>
            THEN /\ result' = Response("tick", IF ~db THEN "db_unavailable"
                                               ELSE "match_not_found")
                 /\ UNCHANGED <<db, cardColl, matchColl, elapsed, nticks,
                                deployLog, inflight>>
            ELSE /\ Len(inflight) < MaxInFlight
                 /\ nticks + InFlight("tick") < MaxConcTicks
                 /\ inflight' = Append(inflight,
                        [op |-> "tick", doc |-> found[1],
                         now |-> found[1].last_tick_ms + d])
                 /\ UNCHANGED <<db, cardColl, matchColl, result, elapsed,
                                nticks, deployLog>>

\* tick, lines 149-174: the computation on the document read, update_one
\* ($set) on the document stored now, then the answer
tick_store ==
    \E i \in 1..Len(inflight) :
        /\ inflight[i].op = "tick"
        /\ matchColl' = <<TickStored(cardColl, matchColl[1], inflight[i])>>
        /\ elapsed' = elapsed + Dt(inflight[i].doc, inflight[i].now)
        /\ nticks' = nticks + 1
        /\ result' = Response("tick", "ok")
        /\ inflight' = RemoveAt(inflight, i)
        /\ UNCHANGED <<db, cardColl, deployLog>>

ConcNext ==
    \/ seed_cards
    \/ start_match
    \/ deploy_load
    \/ deploy_store
    \/ tick_load
    \/ tick_store

SpecConc == Init /\ [][ConcNext]_vars

----------------------------------------------------------------------------
(* The handlers on a longer run of ticks with two cards in play: units     *)
(* reach the end of the lane step by step and a tower is brought down.     *)

MaxSiegeTicks == 5   \* ticks applied to the match in one such run

\* now_ms - last_tick_ms of a tick request in such a run
SiegeDeltas == {2800, 10000}

\* card ids of the deploy requests in such a run
SiegeCards == {"knight", "assassin"}

\* DeployRequest.lane of the deploy requests in such a run
SiegeLanes == {1, 2}

siege_deploy ==
    \E card_id \in SiegeCards, lane \in SiegeLanes :
        DeployRequest("m1", card_id, lane)

siege_tick ==
    \E d \in SiegeDeltas : TickRequest("m1", d, MaxSiegeTicks)

SiegeNext == seed_cards \/ start_match \/ siege_deploy \/ siege_tick

SpecSiege == Init /\ [][SiegeNext]_vars

----------------------------------------------------------------------------
(* Ticks on a stored match one of whose units names a card that the card   *)
(* collection no longer holds.  No handler removes a card document or      *)
(* stores such a unit: the store is here as other writers of the database  *)
(* (the card catalog is maintained outside these handlers) can leave it,   *)
(* which is the case tick's fallback card at line 157 is written for.      *)

\* now_ms - last_tick_ms of a tick request on such a match
OrphanDeltas == {0, 2800, 10000}

\* a unit deployed from a card "dragon" that has since left the catalog
OrphanUnit(lane) ==
    [owner |-> "player", card_id |-> "dragon", x |-> 0, lane |-> lane,
     hp |-> 100]

OrphanInit ==
    /\ db = TRUE
    /\ cardColl = DOMAIN BaseCards
    /\ \E lane \in Lanes, other \in Lanes, card_id \in SiegeCards :
          /\ matchColl =
               << [ NewMatch("m1", StartMs) EXCEPT
                      !.units = <<OrphanUnit(lane), NewUnit(card_id, other)>> ] >>
          /\ deployLog = <<Logged("dragon", lane), Logged(card_id, other)>>
    /\ result = Response("none", "none")
    /\ elapsed = 0
    /\ nticks = 0
    /\ inflight = <<>>

orphan_tick ==
    \E d \in OrphanDeltas : TickRequest("m1", d, MaxTicks)

SpecOrphan == OrphanInit /\ [][orphan_tick]_vars

----------------------------------------------------------------------------
(* Properties *)

HasMatch == matchColl # <<>>
TheMatch == matchColl[1]
Cap == MAX_ELIXIR * ElixirScale
FullTime == START_TIME * 1000
TickStep == nticks' = nticks + 1
Finished == HasMatch /\ TheMatch.status = "finished"

\* C1: after any sequence of ticks and deploys run one after another on a
\* freshly created match, its elixir is at least 0 and at most 10.
C1_ElixirInRange ==
    HasMatch => (TheMatch.elixir >= 0 /\ TheMatch.elixir <= Cap)

\* a unit was deployed, ticks regenerated elixir, and the cap applied
C1_Witness ==
    /\ HasMatch
    /\ nticks >= 1
    /\ Len(TheMatch.units) >= 1
    /\ TheMatch.elixir = Cap
    /\ result = Response("tick", "ok")

\* C2: a tick whose current time is not after the stored last-tick timestamp
\* leaves elixir, the units, the towers, remaining time and status unchanged,
\* also when a unit already stands at position >= 10.
C2_NoOpTick ==
    [][ (HasMatch /\ TickStep
         /\ matchColl'[1].last_tick_ms <= TheMatch.last_tick_ms)
        => /\ matchColl'[1].elixir = TheMatch.elixir
           /\ matchColl'[1].units = TheMatch.units
           /\ matchColl'[1].towers = TheMatch.towers
           /\ matchColl'[1].time = TheMatch.time
           /\ matchColl'[1].status = TheMatch.status ]_vars

\* C3: with no deployment in between, a tick at t1 followed by a tick at
\* t2 > t1 stores the same match as a single tick at t2.
C3_TickAdditive ==
    HasMatch =>
        \A d1 \in Deltas, d2 \in {d \in Deltas : d > 0} :
            LET t1 == TheMatch.last_tick_ms + d1
                t2 == t1 + d2
            IN  t1 >= 0 =>
                  Advance(cardColl, Advance(cardColl, TheMatch, t1), t2)
                    = Advance(cardColl, TheMatch, t2)

\* C4: a deploy that fails (match not found, unknown card, too little
\* elixir) leaves the stored match exactly as it was.
C4_FailedDeployAtomic ==
    [][ (result'.op = "deploy" /\ result'.code # "ok")
        => matchColl' = matchColl ]_vars

\* a deploy on an existing match with a unit on the board was refused for
\* lack of elixir
C4_Witness ==
    /\ HasMatch
    /\ Len(TheMatch.units) >= 1
    /\ result = Response("deploy", "not_enough_elixir")

\* C5: once the ticks of a match cover at least 180 seconds in total,
\* remaining time is 0 and status is finished, however the time is split.
C5_FinishedAfterFullTime ==
    (HasMatch /\ elapsed >= FullTime)
        => (TheMatch.time = 0 /\ TheMatch.status = "finished")

\* C6: while the ticks of a match cover less than 180 seconds in total,
\* remaining time is greater than 0 and status is active.
C6_ActiveBeforeFullTime ==
    (HasMatch /\ elapsed < FullTime)
        => (TheMatch.time > 0 /\ TheMatch.status = "active")

\* several ticks and a deploy brought the countdown within 3 seconds of the
\* end without covering 180 seconds
C6_Witness ==
    /\ HasMatch
    /\ nticks >= 2
    /\ Len(TheMatch.units) >= 1
    /\ elapsed < FullTime
    /\ TheMatch.time <= 3

\* C7: a tick applied to a finished match leaves elixir, the units and the
\* towers as they were.
C7_FinishedTickNoOp ==
    [][ (Finished /\ TickStep)
        => /\ matchColl'[1].elixir = TheMatch.elixir
           /\ matchColl'[1].units = TheMatch.units
           /\ matchColl'[1].towers = TheMatch.towers ]_vars

\* C8: a deploy on a finished match is refused (the answer the claim names
\* is match-not-active; no refusal is ever "ok") and adds no unit and debits
\* no elixir.
C8_FinishedDeployRejected ==
    [][ (Finished /\ result'.op = "deploy")
        => (result'.code # "ok" /\ matchColl' = matchColl) ]_vars

\* C9: once the status of a match is finished, no tick or deploy makes it
\* active again.
C9_StatusOneWay ==
    [][ Finished => (matchColl' # <<>> /\ matchColl'[1].status = "finished") ]_vars

\* two ticks of a full 180 seconds, the second applied to a match the first
\* had finished, and then a deploy accepted on the finished match
C9_Witness ==
    /\ Finished
    /\ nticks >= 2
    /\ elapsed >= 2 * FullTime
    /\ result = Response("deploy", "ok")

\* C10: the stored last-tick timestamp never decreases from one tick to the
\* next, also when a tick carries a time before the stored one.
C10_LastTickMonotone ==
    [][ (HasMatch /\ TickStep)
        => matchColl'[1].last_tick_ms >= TheMatch.last_tick_ms ]_vars

\* C11: on an existing match a deploy is answered ok exactly when the card
\* exists and the stored elixir is at least its cost; an accepted deploy
\* appends one unit (owner player, position 0, the card's hp, the requested
\* lane), lowers elixir by the card's cost and leaves the rest of the match
\* (earlier units, towers, time, status, last-tick timestamp) as it was.
C11_DeployEffect ==
    [][ /\ (db /\ HasMatch) =>
             \A c \in RequestCards :
                 DeployCode(db, cardColl, matchColl, c) = "ok"
                   <=> ( /\ c \in cardColl
                         /\ TheMatch.elixir >= BaseCards[c].cost * ElixirScale )
        /\ (HasMatch /\ deployLog' # deployLog) =>
             LET r == deployLog'[Len(deployLog')]
                 cost == BaseCards[r.card_id].cost * ElixirScale
                 unit == [ owner |-> "player", card_id |-> r.card_id, x |-> 0,
                           lane |-> r.lane, hp |-> BaseCards[r.card_id].hp ]
             IN  /\ result' = Response("deploy", "ok")
                 /\ r.card_id \in cardColl
                 /\ TheMatch.elixir >= cost
                 /\ matchColl' =
                      << [ TheMatch EXCEPT !.units = Append(TheMatch.units, unit),
                                           !.elixir = TheMatch.elixir - cost ] >>
      ]_vars

\* a second unit was deployed next to one that ticks had already moved
C11_Witness ==
    /\ HasMatch
    /\ result = Response("deploy", "ok")
    /\ Len(TheMatch.units) = 2
    /\ TheMatch.units[1].x > 0
    /\ TheMatch.units[2].x = 0
    /\ TheMatch.elixir < Cap - BaseCards["assassin"].cost * ElixirScale + 1

\* C12: without outside serialisation a tick and a deploy on one match can
\* lose an update: a tick's write puts back the units and the elixir it
\* computed from the document it read, so a deploy answered ok between that
\* read and the write loses its unit and its elixir debit.
C12_TickOverwritesDeploy ==
    [][ TickStep =>
          \E i \in 1..Len(inflight) :
              LET e == inflight[i]
              IN  /\ e.op = "tick"
                  /\ inflight' = RemoveAt(inflight, i)
                  /\ Len(matchColl'[1].units) = Len(e.doc.units)
                  /\ matchColl'[1].elixir =
                        Min(Cap, e.doc.elixir
                                   + Max(0, e.now - e.doc.last_tick_ms))
                  /\ Len(TheMatch.units) > Len(e.doc.units)
                       => Len(matchColl'[1].units) < Len(TheMatch.units)
      ]_vars

\* a deploy was answered ok, and after the write of a tick that had read the
\* match before it the match holds no unit and elixir 5 + 1 instead of 1 + 1
C12_Witness ==
    /\ HasMatch
    /\ inflight = <<>>
    /\ result = Response("tick", "ok")
    /\ nticks = 1
    /\ elapsed = RECHARGE_MS
    /\ Len(deployLog) = 1
    /\ TheMatch.units = <<>>
    /\ TheMatch.elixir = (START_ELIXIR + 1) * ElixirScale

\* C13: under every interleaving of the steps of two concurrent deploys on
\* one match, elixir stays at least 0.
C13_ElixirNeverNegative ==
    (HasMatch /\ deployLog # <<>>) => TheMatch.elixir >= 0

\* the units of a list that stand at position >= 10
InContact(u) == u.x >= LANE_END * PosScale

\* the damage per hit of a unit whose card is in the catalog
CardDmg(u) == BaseCards[u.card_id].dmg

\* the damage of the units from i on that are in contact and satisfy hits,
\* each dealing dmg
RECURSIVE ContactDamage(_, _, _, _)
ContactDamage(units, hits(_), dmg(_), i) ==
    IF i > Len(units) THEN 0
    ELSE (IF InContact(units[i]) /\ hits(units[i])
          THEN dmg(units[i]) ELSE 0)
         + ContactDamage(units, hits, dmg, i + 1)

TowersHitBy(old, new, after, hits(_, _), dmg(_)) ==
    /\ Len(new) = Len(old)
    /\ \A k \in 1..Len(old) :
          /\ new[k].side = old[k].side
          /\ new[k].lane = old[k].lane
          /\ new[k].hp =
                Max(0, old[k].hp
                       - ContactDamage(after, LAMBDA u : hits(u, old[k]),
                                       dmg, 1))

\* lane 0 is the left lane, 1 the centre, 2 the right (schemas.py:41)
OwnLaneTower(u, t) ==
    /\ t.side = "ai"
    /\ \/ u.lane = 0 /\ t.lane = "left"
       \/ u.lane = 2 /\ t.lane = "right"

LeftUnlessRight(u, t) ==
    /\ t.side = "ai"
    /\ \/ u.lane \in {0, 1} /\ t.lane = "left"
       \/ u.lane = 2 /\ t.lane = "right"

\* C16 as stated: a unit in contact damages only the enemy tower of its own
\* lane (lane 0 the ai left tower, lane 2 the ai right tower), a centre-lane
\* unit damages no side tower, and no tick changes a player tower or a king
\* tower.
C16_OwnLaneOnly ==
    [][ (HasMatch /\ TickStep) =>
          TowersHitBy(TheMatch.towers, matchColl'[1].towers,
                      matchColl'[1].units, OwnLaneTower, CardDmg) ]_vars

\* C16 as amended: a unit of lane 2 in contact damages only the ai right
\* tower, a unit of lane 0 or of the centre lane 1 only the ai left tower;
\* no tick changes a player tower or a king tower, which keep their
\* starting hp.
C16_LaneTargets ==
    [][ (HasMatch /\ TickStep) =>
          /\ TowersHitBy(TheMatch.towers, matchColl'[1].towers,
                         matchColl'[1].units, LeftUnlessRight, CardDmg)
          /\ \A k \in 1..Len(TheMatch.towers) :
                LET t == matchColl'[1].towers[k]
                IN  (t.side = "player" \/ t.lane = "king")
                      => t.hp = NewMatch("m1", StartMs).towers[k].hp
      ]_vars

\* a centre-lane unit and a right-lane unit are both in contact; the ai
\* left tower and the ai right tower have both lost hp
C16_Witness ==
    /\ HasMatch
    /\ Len(TheMatch.units) = 2
    /\ {TheMatch.units[1].lane, TheMatch.units[2].lane} = {1, 2}
    /\ InContact(TheMatch.units[1])
    /\ InContact(TheMatch.units[2])
    /\ TheMatch.towers[4].hp < SIDE_TOWER_HP
    /\ TheMatch.towers[5].hp < SIDE_TOWER_HP
    /\ result = Response("tick", "ok")

\* C17: a tick on a match holding a unit whose card id is absent from the
\* card catalog completes and stores the new state: that unit moves at 1.0
\* per second and deals 50 per tick in contact; the other units, elixir,
\* time and the last-tick timestamp advance as usual.
C17_MissingCardFallback ==
    [][ (HasMatch /\ result'.op = "tick") =>
          LET m == TheMatch
              n == matchColl'[1]
              dt == Max(0, n.last_tick_ms - m.last_tick_ms)
              known(u) == u.card_id \in cardColl
              speed(u) == IF known(u) THEN BaseCards[u.card_id].speed ELSE 10
              dmg(u) == IF known(u) THEN BaseCards[u.card_id].dmg ELSE 50
          IN  /\ result' = Response("tick", "ok")
              /\ TickStep
              /\ Len(n.units) = Len(m.units)
              /\ \A i \in 1..Len(m.units) :
                    n.units[i] = [m.units[i] EXCEPT
                                    !.x = m.units[i].x + speed(m.units[i]) * dt]
              /\ TowersHitBy(m.towers, n.towers, n.units, IsTarget, dmg)
              /\ n.elixir = Min(Cap, m.elixir + dt)
              /\ n.time = Max(0, m.time - (dt \div 1000))
              /\ n.status = (IF n.time = 0 THEN "finished" ELSE "active")
              /\ n.last_tick_ms = StartMs + elapsed'
      ]_vars

\* the unit without a card has walked 10 s at 1.0 per second into contact
\* and has hit a tower twice for 50 next to a unit with a card
C17_Witness ==
    /\ HasMatch
    /\ nticks = 2
    /\ result = Response("tick", "ok")
    /\ TheMatch.units[1].card_id = "dragon"
    /\ TheMatch.units[1].card_id \notin cardColl
    /\ TheMatch.units[1].x = LANE_END * PosScale
    /\ TheMatch.units[1].lane = 2
    /\ TheMatch.units[2].lane = 1
    /\ TheMatch.towers[5].hp = SIDE_TOWER_HP - 100

\* C18: a tick with elapsed time dt ms sets elixir to min(10, elixir +
\* dt/2800) and keeps the fractional part; a tick 2800 ms after the last one
\* adds exactly 1 elixir, or makes elixir exactly 10 where 1 more would
\* exceed 10.
C18_ElixirRegen ==
    [][ (HasMatch /\ TickStep) =>
          LET m == TheMatch
              n == matchColl'[1]
              dt == Max(0, n.last_tick_ms - m.last_tick_ms)
          IN  /\ n.elixir = Min(10 * ElixirScale,
                                m.elixir + (dt * ElixirScale) \div 2800)
              /\ (dt * ElixirScale) % 2800 = 0
              /\ dt = 2800 =>
                    n.elixir = (IF m.elixir + ElixirScale > 10 * ElixirScale
                                THEN 10 * ElixirScale
                                ELSE m.elixir + ElixirScale)
      ]_vars

\* a tick of 2800 ms and a tick of 500 ms took elixir from 5 to 6 + 500/2800
C18_Witness ==
    /\ HasMatch
    /\ nticks = 2
    /\ elapsed = 3300
    /\ result = Response("tick", "ok")
    /\ TheMatch.units = <<>>
    /\ TheMatch.elixir = 6 * ElixirScale + (500 * ElixirScale) \div 2800

C20_UnitsKeepDeployFields ==
    HasMatch =>
        /\ Len(TheMatch.units) = Len(deployLog)
        /\ \A i \in 1..Len(deployLog) :
              LET u == TheMatch.units[i]
              IN  /\ u.owner = "player"
                  /\ u.card_id = deployLog[i].card_id
                  /\ u.lane = deployLog[i].lane
                  /\ u.hp = BaseCards[deployLog[i].card_id].hp
                  /\ u.hp <= BaseCards[u.card_id].hp
                  /\ DOMAIN u = {"owner", "card_id", "x", "lane", "hp"}

\* two units deployed in different lanes, both moved by two later ticks
C20_Witness ==
    /\ HasMatch
    /\ nticks >= 2
    /\ result = Response("tick", "ok")
    /\ Len(deployLog) = 2
    /\ Len(TheMatch.units) = 2
    /\ TheMatch.units[1].lane = 0
    /\ TheMatch.units[2].lane = 2
    /\ TheMatch.units[2].x > 0
    /\ TheMatch.units[1].x > TheMatch.units[2].x

====
